---- MODULE Spec2Model ----
(***************************************************************************)
(* HardwareSerial (cores/arduino/HardwareSerial.cpp): the interrupt-driven *)
(* UART driver.  The foreground program calls begin, end, read, peek,      *)
(* flush and write; the data-register-empty handler _tx_udr_empty_irq and  *)
(* the receive handler preempt it between any two foreground steps unless  *)
(* interrupts are masked.  The USART itself (data register UDR, transmit   *)
(* shift register, flags UDRE and TXC) is modelled by two hardware steps.  *)
(***************************************************************************)
EXTENDS Integers, Sequences, FiniteSets, TLC

\* Ring capacities.  The build sets them in HardwareSerial.h (64 or 16); the
\* model runs the same code on small rings.
SERIAL_TX_BUFFER_SIZE == 3
SERIAL_RX_BUFFER_SIZE == 3

\* Largest ring capacity for which the index arithmetic of available() and
\* availableForWrite() is evaluated on every pair of indices.
MaxCapacity == 8

\* CPU clock the baud divisor is computed from (begin).
F_CPU == 16000000

\* Byte values passed to write() and delivered by the receiver.
Bytes == {0, 1}
\* Arguments of begin(): 57600 baud (the non-U2X exception) and SERIAL_8N1.
Bauds == {57600}
Configs == {6}

VARIABLES
    _tx_buffer_head, _tx_buffer_tail, _tx_buffer,   \* TX ring
    _rx_buffer_head, _rx_buffer_tail, _rx_buffer,   \* RX ring
    _written,                                       \* transmit-pending flag
    ucsra,      \* bits set in UCSRA, among "U2X", "UDRE", "TXC"
    ucsrb,      \* bits set in UCSRB, among "RXEN", "TXEN", "RXCIE", "UDRIE"
    ucsrc,      \* frame format register
    ubrr,       \* <<UBRRH, UBRRL>>
    udr,        \* the byte last stored to the transmit data register UDR
    sreg_i,     \* global interrupt enable (SREG bit I)
    shift_busy, \* the transmit shift register holds a frame
    pc,         \* position of the foreground program
    c, head, tail, newHead,  \* locals of the running foreground function
    reg,        \* the value of UCSRB loaded by the sbi or cbi in progress in begin()
    ret,        \* value returned by the function that has just returned
    pending,    \* history: bytes accepted by write() and not yet stored to UDR
    order_ok,   \* history: every store to UDR so far was the oldest pending byte
    found_full  \* history: some write() found the TX ring full

tx == <<_tx_buffer_head, _tx_buffer_tail, _tx_buffer>>
rx == <<_rx_buffer_head, _rx_buffer_tail, _rx_buffer>>
regs == <<ucsra, ucsrb, ucsrc, ubrr>>
locals == <<c, head, tail, newHead, reg>>
hist == <<pending, order_ok, found_full>>
vars == <<tx, rx, _written, regs, sreg_i, shift_busy, pc, locals, ret, udr, hist>>

TxIndex == 0 .. SERIAL_TX_BUFFER_SIZE - 1
RxIndex == 0 .. SERIAL_RX_BUFFER_SIZE - 1

----------------------------------------------------------------------------
\* Index arithmetic

RECURSIVE BitAnd(_, _)
BitAnd(a, b) ==
    IF a = 0 \/ b = 0 THEN 0
    ELSE 2 * BitAnd(a \div 2, b \div 2) + (IF a % 2 = 1 /\ b % 2 = 1 THEN 1 ELSE 0)

\* #define IS_PWR_TWO(n) ( ( ( (n) - 1 ) & (n) ) == 0 )
IS_PWR_TWO(n) == BitAnd(n - 1, n) = 0

\* The tail advance of the handler: a mask for a power of two, else a
\* conditional reset.
TxNextTail(t) ==
    IF IS_PWR_TWO(SERIAL_TX_BUFFER_SIZE)
    THEN BitAnd(t + 1, SERIAL_TX_BUFFER_SIZE - 1)
    ELSE IF t + 1 >= SERIAL_TX_BUFFER_SIZE THEN 0 ELSE t + 1

\* The head advance of write().  Its guard is "#if IS_PWR_TWO" with no
\* argument list: the function-like macro is not expanded, the bare identifier
\* evaluates to 0 and the #else branch is compiled for every capacity.
TxNextHead(h) ==
    IF h + 1 >= SERIAL_TX_BUFFER_SIZE THEN 0 ELSE h + 1

\* Mutant: read() leaves the tail where it is.
RxNextTail_Stay(t) == t

\* The tail advance of read().
RxNextTail(t) ==
    IF IS_PWR_TWO(SERIAL_RX_BUFFER_SIZE)
    THEN BitAnd(t + 1, SERIAL_RX_BUFFER_SIZE - 1)
    ELSE IF t + 1 >= SERIAL_RX_BUFFER_SIZE THEN 0 ELSE t + 1

\* The head advance of the receive handler.
RxNextHead(h) == (h + 1) % SERIAL_RX_BUFFER_SIZE

\* An int expression of the index arithmetic as the 16 bits the AVR computes.
Word(x) == (x + 65536) % 65536

\* Mutant: available() without the wrap of the difference.
AvailableResult_NoWrap(cap, h, t) == IF t > h THEN t - h ELSE h - t

\* The value returned by available() of a build with an RX ring of cap slots,
\* for the head h and the tail t it has read.
AvailableResult(cap, h, t) ==
    IF IS_PWR_TWO(cap)
    THEN BitAnd(Word(h - t), cap - 1)
    ELSE IF t > h THEN cap + h - t ELSE h - t

\* Mutant: availableForWrite() without the reserved slot.
AvailableForWriteResult_NoReserve(cap, h, t) == cap - ((h - t) % cap)

\* The value returned by availableForWrite() of a build with a TX ring of cap
\* slots (at most 256: tx_buffer_index_t is uint8_t).
AvailableForWriteResult(cap, h, t) ==
    IF IS_PWR_TWO(cap)
    THEN BitAnd(Word(t - h - 1), cap - 1) % 256
    ELSE IF h >= t THEN (cap - 1) - h + t ELSE Word(t - h - 1) % 256

----------------------------------------------------------------------------
\* Registers

\* Mutant: the write to UCSRA after a store to UDR leaves TXC set.
UcsraAfterStore_KeepTxc(a) == a \cap {"U2X", "TXC"}

\* *_ucsra = ((*_ucsra) & ((1 << U2X0) | (1 << MPCM0))) | (1 << TXC0), right
\* after a store to UDR: U2X is kept, writing one to TXC clears it, and UDRE
\* (read-only) is clear because UDR has just been filled.
UcsraAfterStore(a) == a \cap {"U2X"}

\* History of a store of byte b to UDR.
StoreHistory(b) ==
    IF order_ok /\ pending # <<>> /\ Head(pending) = b
    THEN /\ pending' = Tail(pending)
         /\ order_ok' = TRUE
    ELSE /\ pending' = <<>>
         /\ order_ok' = FALSE

\* History of write(b) accepting a byte.  The ring holds at most
\* SERIAL_TX_BUFFER_SIZE unsent bytes and one more is held by a write() in
\* progress: a longer list means that an accepted byte has been dropped.
AcceptHistory(b) ==
    IF order_ok /\ Len(pending) <= SERIAL_TX_BUFFER_SIZE
    THEN /\ pending' = Append(pending, b)
         /\ order_ok' = TRUE
    ELSE /\ pending' = <<>>
         /\ order_ok' = FALSE

----------------------------------------------------------------------------
Init ==
    /\ _tx_buffer_head = 0
    /\ _tx_buffer_tail = 0
    /\ _tx_buffer = [i \in TxIndex |-> 0]
    /\ _rx_buffer_head = 0
    /\ _rx_buffer_tail = 0
    /\ _rx_buffer = [i \in RxIndex |-> 0]
    /\ _written = FALSE
    /\ ucsra = {"UDRE"}
    /\ ucsrb = {}
    /\ ucsrc = 0
    /\ ubrr = <<0, 0>>
    /\ udr = 0
    /\ sreg_i = TRUE
    /\ shift_busy = FALSE
    /\ pc = "idle"
    /\ c = 0 /\ head = 0 /\ tail = 0 /\ newHead = 0
    /\ reg = {}
    /\ ret = 0
    /\ pending = <<>>
    /\ order_ok = TRUE
    /\ found_full = FALSE

----------------------------------------------------------------------------
\* The USART transmitter

\* Inside ATOMIC_BLOCK of the fast path, between the store to UDR and the
\* clear of TXC.  No interrupt is taken there, and the two instructions are
\* adjacent: the transmitter cannot move a frame in between.
InFastAtomic == pc = "w_fast_txc"

\* UDR holds a byte and the shift register is free: the byte moves to the
\* shift register and UDRE is set.
HwLoad ==
    /\ ~InFastAtomic
    /\ "UDRE" \notin ucsra
    /\ ~shift_busy
    /\ shift_busy' = TRUE
    /\ ucsra' = ucsra \cup {"UDRE"}
    /\ UNCHANGED <<tx, rx, _written, ucsrb, ucsrc, ubrr, sreg_i, pc, locals, ret, udr, hist>>

\* The frame in the shift register has been sent.  With UDR empty the
\* transmitter goes idle and sets TXC; otherwise it takes the next byte.
HwShiftDone ==
    /\ ~InFastAtomic
    /\ shift_busy
    /\ IF "UDRE" \in ucsra
       THEN /\ shift_busy' = FALSE
            /\ ucsra' = ucsra \cup {"TXC"}
       ELSE /\ shift_busy' = TRUE
            /\ ucsra' = ucsra \cup {"UDRE"}
    /\ UNCHANGED <<tx, rx, _written, ucsrb, ucsrc, ubrr, sreg_i, pc, locals, ret, udr, hist>>

----------------------------------------------------------------------------
\* Interrupt handlers

\* void HardwareSerial::_tx_udr_empty_irq(void): the body, on the TX ring and
\* the registers.  Its callers say what happens to the rest of the state.
_tx_udr_empty_irq ==
    LET h == _tx_buffer_head
        t == _tx_buffer_tail
        b == _tx_buffer[t]
        nt == TxNextTail(t)
    IN  /\ udr' = b
        /\ ucsra' = UcsraAfterStore(ucsra)
        /\ StoreHistory(b)
        /\ ucsrb' = IF h = nt THEN ucsrb \ {"UDRIE"} ELSE ucsrb
        /\ _tx_buffer_tail' = nt
        /\ UNCHANGED <<_tx_buffer_head, _tx_buffer, ucsrc, ubrr, shift_busy, found_full>>

\* The data-register-empty interrupt: taken between two foreground steps
\* when interrupts are enabled, UDRIE is set and UDRE is set.
TxIrq ==
    /\ sreg_i
    /\ ~InFastAtomic
    /\ "UDRIE" \in ucsrb
    /\ "UDRE" \in ucsra
    /\ _tx_udr_empty_irq
    /\ UNCHANGED <<rx, _written, sreg_i, pc, locals, ret>>

\* The receive-complete interrupt (HardwareSerial_private.h): stores the
\* byte at head and publishes the next head when a slot is free.
RxIrq(b) ==
    /\ sreg_i
    /\ ~InFastAtomic
    /\ "RXEN" \in ucsrb
    /\ "RXCIE" \in ucsrb
    /\ RxNextHead(_rx_buffer_head) # _rx_buffer_tail
    /\ _rx_buffer' = [_rx_buffer EXCEPT ![_rx_buffer_head] = b]
    /\ _rx_buffer_head' = RxNextHead(_rx_buffer_head)
    /\ UNCHANGED <<tx, _rx_buffer_tail, _written, regs, sreg_i, shift_busy, pc, locals, ret, udr, hist>>

----------------------------------------------------------------------------
\* The foreground program

\* cli() / sei() between two calls of the driver.
noInterrupts ==
    /\ pc = "idle"
    /\ sreg_i
    /\ sreg_i' = FALSE
    /\ UNCHANGED <<tx, rx, _written, regs, shift_busy, pc, locals, ret, udr, hist>>

interrupts ==
    /\ pc = "idle"
    /\ ~sreg_i
    /\ sreg_i' = TRUE
    /\ UNCHANGED <<tx, rx, _written, regs, shift_busy, pc, locals, ret, udr, hist>>

RetPcs == {"b_ret", "e_ret", "a_ret", "p_ret", "r_ret", "aw_ret", "f_ret", "w_ret"}

\* The function has returned; the caller goes on.
Return ==
    /\ pc \in RetPcs
    /\ pc' = "idle"
    /\ ret' = 0
    /\ c' = 0 /\ head' = 0 /\ tail' = 0 /\ newHead' = 0
    /\ reg' = {}
    /\ UNCHANGED <<tx, rx, _written, regs, sreg_i, shift_busy, udr, hist>>

\* (F_CPU / div / baud - 1) / 2 assigned to a uint16_t.  The arithmetic is
\* unsigned long: a quotient of 0 minus 1 wraps to 2^32 - 1, whose half is
\* 2^31 - 1; the assignment keeps the low 16 bits.
BaudDivisor(div, baud) ==
    LET q == (F_CPU \div div) \div baud
    IN  (IF q = 0 THEN 2147483647 ELSE (q - 1) \div 2) % 65536

\* uint16_t baud_setting of begin() and the U2X choice: the test of line 143
\* is on the truncated variable.
BaudU2X(baud) == ~((F_CPU = 16000000 /\ baud = 57600) \/ BaudDivisor(4, baud) > 4095)
BaudSetting(baud) ==
    IF BaudU2X(baud)
    THEN BaudDivisor(4, baud)
    ELSE BaudDivisor(8, baud)

\* void HardwareSerial::begin(unsigned long baud, byte config): the baud
\* rate, _written and the frame format (lines 135 to 159).  No handler reads
\* or writes what these lines write, except U2X, which the handler copies.
begin(baud, config) ==
    /\ pc = "idle"
    /\ ucsra' = (ucsra \ {"U2X"}) \cup (IF BaudU2X(baud) THEN {"U2X"} ELSE {})
    /\ ubrr' = <<(BaudSetting(baud) \div 256) % 256, BaudSetting(baud) % 256>>
    /\ _written' = FALSE
    /\ ucsrc' = config
    /\ pc' = "b_rxen"
    /\ UNCHANGED <<tx, rx, ucsrb, sreg_i, shift_busy, locals, ret, udr, hist>>

\* sbi and cbi on *_ucsrb are a load, an or/and and a store through the
\* pointer, and begin() runs with interrupts as the caller left them: a
\* handler can run between the load and the store.
\* The load of the register by the sbi or cbi at position at.
BeginLoad(at, next) ==
    /\ pc = at
    /\ reg' = ucsrb
    /\ pc' = next
    /\ UNCHANGED <<tx, rx, _written, regs, sreg_i, shift_busy, c, head, tail, newHead,
                   ret, udr, hist>>

\* The store of the loaded value with the bits of set added and those of
\* clear removed.
BeginStore(at, next, set, clear) ==
    /\ pc = at
    /\ ucsrb' = (reg \cup set) \ clear
    /\ reg' = {}
    /\ pc' = next
    /\ UNCHANGED <<tx, rx, _written, ucsra, ucsrc, ubrr, sreg_i, shift_busy,
                   c, head, tail, newHead, ret, udr, hist>>

\* sbi(*_ucsrb, RXEN0)
begin_rxen_load == BeginLoad("b_rxen", "b_rxen_st")
begin_rxen_store == BeginStore("b_rxen_st", "b_txen", {"RXEN"}, {})
\* sbi(*_ucsrb, TXEN0)
begin_txen_load == BeginLoad("b_txen", "b_txen_st")
begin_txen_store == BeginStore("b_txen_st", "b_rxcie", {"TXEN"}, {})
\* sbi(*_ucsrb, RXCIE0)
begin_rxcie_load == BeginLoad("b_rxcie", "b_rxcie_st")
begin_rxcie_store == BeginStore("b_rxcie_st", "b_udrie", {"RXCIE"}, {})
\* cbi(*_ucsrb, UDRIE0)
begin_udrie_load == BeginLoad("b_udrie", "b_udrie_st")
begin_udrie_store == BeginStore("b_udrie_st", "b_ret", {}, {"UDRIE"})

\* The steps of begin() after its first.
BeginSteps ==
    \/ begin_rxen_load \/ begin_rxen_store
    \/ begin_txen_load \/ begin_txen_store
    \/ begin_rxcie_load \/ begin_rxcie_store
    \/ begin_udrie_load \/ begin_udrie_store

\* The positions of begin() between its call and its return.
BeginPcs == {"b_rxen", "b_rxen_st", "b_txen", "b_txen_st", "b_rxcie", "b_rxcie_st",
             "b_udrie", "b_udrie_st"}

\* int HardwareSerial::availableForWrite(void).  The head is read before the
\* tail and no interrupt changes it: the pair is the one of the tail read.
availableForWrite ==
    /\ pc = "idle"
    /\ head' = _tx_buffer_head
    /\ tail' = _tx_buffer_tail
    /\ ret' = AvailableForWriteResult(SERIAL_TX_BUFFER_SIZE, _tx_buffer_head, _tx_buffer_tail)
    /\ pc' = "aw_ret"
    /\ UNCHANGED <<tx, rx, _written, regs, sreg_i, shift_busy, c, newHead, reg, udr, hist>>

\* Mutant: flush() does not wait for TXC.
FlushPending_NoTxc == "UDRIE" \in ucsrb

\* The while condition of flush().
FlushPending == "UDRIE" \in ucsrb \/ "TXC" \notin ucsra

\* Mutant: flush() never calls the handler itself.
FlushMustPoll_Never == FALSE

\* The condition under which flush() calls the handler itself.
FlushMustPoll == ~sreg_i /\ "UDRIE" \in ucsrb /\ "UDRE" \in ucsra

\* Mutant: flush() without the test of _written.
FlushEntry_NoShortCut(loop_pc, skip_pc) ==
    /\ pc' = loop_pc
    /\ UNCHANGED <<tx, rx, _written, regs, sreg_i, shift_busy, locals, ret, udr, hist>>

\* void HardwareSerial::flush(): the test of _written.
FlushEntry(loop_pc, skip_pc) ==
    /\ pc' = IF ~_written THEN skip_pc ELSE loop_pc
    /\ UNCHANGED <<tx, rx, _written, regs, sreg_i, shift_busy, locals, ret, udr, hist>>

\* One evaluation of the while condition of flush() and, when it holds, one
\* pass through the body.
FlushLoop(exit_pc) ==
    IF FlushPending
    THEN IF FlushMustPoll
         THEN /\ _tx_udr_empty_irq
              /\ UNCHANGED <<rx, _written, sreg_i, pc, locals, ret>>
         ELSE UNCHANGED vars
    ELSE /\ pc' = exit_pc
         /\ UNCHANGED <<tx, rx, _written, regs, sreg_i, shift_busy, locals, ret, udr, hist>>

flush ==
    /\ pc = "idle"
    /\ FlushEntry("f_loop", "f_ret")

flush_loop ==
    /\ pc = "f_loop"
    /\ FlushLoop("f_ret")

\* void HardwareSerial::end()
end ==
    /\ pc = "idle"
    /\ FlushEntry("e_flush", "e_cbi")

end_flush ==
    /\ pc = "e_flush"
    /\ FlushLoop("e_cbi")

\* end(): the four cbi and the reset of the RX ring.  UDRIE is clear whenever
\* end() gets here (flush() has waited for it, or begin() has cleared it and
\* no write() has set it since), so no handler writes UCSRB between the load
\* and the store of a cbi, and RXCIE is clear before the RX head is written.
end_cbi ==
    /\ pc = "e_cbi"
    /\ ucsrb' = ucsrb \ {"RXEN", "TXEN", "RXCIE", "UDRIE"}
    /\ _rx_buffer_head' = _rx_buffer_tail
    /\ pc' = "e_ret"
    /\ UNCHANGED <<tx, _rx_buffer_tail, _rx_buffer, _written, ucsra, ucsrc, ubrr,
                   sreg_i, shift_busy, locals, ret, udr, hist>>

\* int HardwareSerial::available(void): the read of the head
available ==
    /\ pc = "idle"
    /\ head' = _rx_buffer_head
    /\ pc' = "a_cmp"
    /\ UNCHANGED <<tx, rx, _written, regs, sreg_i, shift_busy, c, tail, newHead, reg, ret, udr, hist>>

\* available(): the read of the tail and the count
available_ret ==
    /\ pc = "a_cmp"
    /\ tail' = _rx_buffer_tail
    /\ ret' = AvailableResult(SERIAL_RX_BUFFER_SIZE, head, _rx_buffer_tail)
    /\ pc' = "a_ret"
    /\ UNCHANGED <<tx, rx, _written, regs, sreg_i, shift_busy, c, head, newHead, reg, udr, hist>>

\* int HardwareSerial::peek(void)
peek ==
    /\ pc = "idle"
    /\ head' = _rx_buffer_head
    /\ pc' = "p_cmp"
    /\ UNCHANGED <<tx, rx, _written, regs, sreg_i, shift_busy, c, tail, newHead, reg, ret, udr, hist>>

\* Mutant: peek() consumes the byte it returns.
peek_cmp_Consume ==
    /\ pc = "p_cmp"
    /\ tail' = _rx_buffer_tail
    /\ ret' = IF head = _rx_buffer_tail THEN -1 ELSE _rx_buffer[_rx_buffer_tail]
    /\ _rx_buffer_tail' = IF head = _rx_buffer_tail THEN _rx_buffer_tail
                          ELSE (_rx_buffer_tail + 1) % SERIAL_RX_BUFFER_SIZE
    /\ pc' = "p_ret"
    /\ UNCHANGED <<tx, _rx_buffer_head, _rx_buffer, _written, regs, sreg_i, shift_busy,
                   c, head, newHead, reg, udr, hist>>

peek_cmp ==
    /\ pc = "p_cmp"
    /\ tail' = _rx_buffer_tail
    /\ ret' = IF head = _rx_buffer_tail THEN -1 ELSE _rx_buffer[_rx_buffer_tail]
    /\ pc' = "p_ret"
    /\ UNCHANGED <<tx, rx, _written, regs, sreg_i, shift_busy, c, head, newHead, reg, udr, hist>>

\* int HardwareSerial::read(void)
read ==
    /\ pc = "idle"
    /\ head' = _rx_buffer_head
    /\ pc' = "r_cmp"
    /\ UNCHANGED <<tx, rx, _written, regs, sreg_i, shift_busy, c, tail, newHead, reg, ret, udr, hist>>

read_cmp ==
    /\ pc = "r_cmp"
    /\ tail' = _rx_buffer_tail
    /\ IF head = _rx_buffer_tail
       THEN /\ ret' = -1
            /\ pc' = "r_ret"
            /\ UNCHANGED _rx_buffer_tail
       ELSE /\ _rx_buffer_tail' = RxNextTail(_rx_buffer_tail)
            /\ pc' = "r_load"
            /\ UNCHANGED ret
    /\ UNCHANGED <<tx, _rx_buffer_head, _rx_buffer, _written, regs, sreg_i, shift_busy,
                   c, head, newHead, reg, udr, hist>>

\* Mutant: read() returns the byte at the advanced tail.
read_load_NewTail ==
    /\ pc = "r_load"
    /\ ret' = _rx_buffer[_rx_buffer_tail]
    /\ pc' = "r_ret"
    /\ UNCHANGED <<tx, rx, _written, regs, sreg_i, shift_busy, locals, udr, hist>>

\* return _rx_buffer[tail]
read_load ==
    /\ pc = "r_load"
    /\ ret' = _rx_buffer[tail]
    /\ pc' = "r_ret"
    /\ UNCHANGED <<tx, rx, _written, regs, sreg_i, shift_busy, locals, udr, hist>>

\* The fast-path condition of write(), on its local copies of the indices.
FastPath == head = tail /\ "UDRE" \in ucsra

\* size_t HardwareSerial::write(uint8_t c): entry, the two index reads.
write(b) ==
    /\ pc = "idle"
    /\ _written' = TRUE
    /\ head' = _tx_buffer_head
    /\ tail' = _tx_buffer_tail
    /\ c' = b
    /\ AcceptHistory(b)
    /\ pc' = "w_check"
    /\ UNCHANGED <<tx, rx, regs, udr, sreg_i, shift_busy, newHead, reg, ret, found_full>>

\* The fast-path test; when it fails, the store into the ring, the next head
\* and the test for a full ring.
write_check ==
    /\ pc = "w_check"
    /\ IF FastPath
       THEN /\ pc' = "w_fast"
            /\ UNCHANGED <<_tx_buffer, newHead, found_full>>
       ELSE /\ _tx_buffer' = [_tx_buffer EXCEPT ![head] = c]
            /\ newHead' = TxNextHead(head)
            /\ IF TxNextHead(head) = tail
               THEN /\ found_full' = TRUE
                    /\ pc' = IF ~sreg_i THEN "w_poll" ELSE "w_spin"
               ELSE /\ pc' = "w_commit"
                    /\ UNCHANGED found_full
    /\ UNCHANGED <<_tx_buffer_head, _tx_buffer_tail, rx, _written, regs, sreg_i,
                   shift_busy, c, head, tail, reg, ret, udr, pending, order_ok>>

\* Mutant: the fast path sends the byte of the ring slot at head.
write_fast_udr_FromRing ==
    /\ pc = "w_fast"
    /\ udr' = _tx_buffer[head]
    /\ ucsra' = ucsra \ {"UDRE"}
    /\ StoreHistory(_tx_buffer[head])
    /\ pc' = "w_fast_txc"
    /\ UNCHANGED <<tx, rx, _written, ucsrb, ucsrc, ubrr, sreg_i, shift_busy, locals,
                   ret, found_full>>

\* Fast path, inside ATOMIC_BLOCK: *_udr = c
write_fast_udr ==
    /\ pc = "w_fast"
    /\ udr' = c
    /\ ucsra' = ucsra \ {"UDRE"}
    /\ StoreHistory(c)
    /\ pc' = "w_fast_txc"
    /\ UNCHANGED <<tx, rx, _written, ucsrb, ucsrc, ubrr, sreg_i, shift_busy, locals,
                   ret, found_full>>

\* Fast path: the clear of TXC, and return 1.
write_fast_txc ==
    /\ pc = "w_fast_txc"
    /\ ucsra' = UcsraAfterStore(ucsra)
    /\ ret' = 1
    /\ pc' = "w_ret"
    /\ UNCHANGED <<tx, rx, _written, ucsrb, ucsrc, ubrr, sreg_i, shift_busy, locals, udr, hist>>

\* One pass of the wait loop with interrupts disabled, while (newHead == t),
\* where t is the value the test reads from the tail it names.
WritePoll(t) ==
    IF newHead = t
    THEN IF "UDRE" \in ucsra
         THEN /\ _tx_udr_empty_irq
              /\ UNCHANGED <<rx, _written, sreg_i, pc, locals, ret>>
         ELSE UNCHANGED vars
    ELSE /\ pc' = "w_commit"
         /\ UNCHANGED <<tx, rx, _written, regs, sreg_i, shift_busy, locals, ret, udr, hist>>

\* The wait loop with interrupts disabled: while (newHead == _rx_buffer_tail)
write_poll ==
    /\ pc = "w_poll"
    /\ WritePoll(_rx_buffer_tail)

\* One pass of the wait loop with interrupts enabled, while (newHead == tail)
\* tail = t, where t is the value read from the tail the body names.
WriteSpin(t) ==
    /\ IF newHead = tail
       THEN /\ tail' = t
            /\ UNCHANGED pc
       ELSE /\ pc' = "w_commit"
            /\ UNCHANGED tail
    /\ UNCHANGED <<tx, rx, _written, regs, sreg_i, shift_busy, c, head, newHead, reg, ret, udr, hist>>

\* The wait loop with interrupts enabled: while (newHead == tail) tail = _rx_buffer_tail
write_spin ==
    /\ pc = "w_spin"
    /\ WriteSpin(_rx_buffer_tail)

\* ATOMIC_BLOCK: _tx_buffer_head = newHead; sbi(*_ucsrb, UDRIE0); return 1
write_commit ==
    /\ pc = "w_commit"
    /\ _tx_buffer_head' = newHead
    /\ ucsrb' = ucsrb \cup {"UDRIE"}
    /\ ret' = 1
    /\ pc' = "w_ret"
    /\ UNCHANGED <<_tx_buffer_tail, _tx_buffer, rx, _written, ucsra, ucsrc, ubrr, sreg_i,
                   shift_busy, locals, udr, hist>>

----------------------------------------------------------------------------
Lifecycle ==
    \/ \E baud \in Bauds, config \in Configs : begin(baud, config)
    \/ BeginSteps
    \/ end \/ end_flush \/ end_cbi

Receive ==
    \/ available \/ available_ret
    \/ peek \/ peek_cmp
    \/ read \/ read_cmp \/ read_load

TransmitSteps ==
    \/ flush_loop
    \/ write_check \/ write_fast_udr \/ write_fast_txc
    \/ write_poll \/ write_spin \/ write_commit

Mask == noInterrupts \/ interrupts

Hardware == HwLoad \/ HwShiftDone

\* The driver with the written bytes drawn from TxData and the received
\* bytes from RxData.
Driver(TxData, RxData) ==
    \/ Lifecycle \/ Receive \/ Mask \/ Return
    \/ availableForWrite
    \/ flush
    \/ \E b \in TxData : write(b)
    \/ TransmitSteps
    \/ TxIrq
    \/ \E b \in RxData : RxIrq(b)
    \/ Hardware

\* Transmit data varies; the receive path never reads it, and the transmit
\* path never reads the received bytes, which are all 0 here.
Next == Driver(Bytes, {0})

Spec == Init /\ [][Next]_vars

\* Received data varies, written bytes are all 0.
NextRx == Driver({0}, Bytes)

SpecRx == Init /\ [][NextRx]_vars

\* Scheduling for the liveness claims: a function that has been called keeps
\* executing, a pending interrupt is taken and the transmitter keeps shifting.
\* Nothing obliges the program to call the driver again.
ForegroundSteps ==
    \/ BeginSteps
    \/ end_flush \/ end_cbi
    \/ available_ret \/ peek_cmp \/ read_cmp \/ read_load
    \/ TransmitSteps
    \/ Return

Fairness ==
    /\ WF_vars(ForegroundSteps)
    /\ WF_vars(TxIrq)
    /\ WF_vars(Hardware)

\* Whether a call returns does not depend on the byte values: the liveness
\* claims are checked with every written and received byte 0.
NextFair == Driver({0}, {0})

FairSpec == Init /\ [][NextFair]_vars /\ Fairness

\* The counting functions on every pair of indices: the port is open, the
\* rings hold zeros between any tail and any head, the transmitter is idle
\* on an empty TX ring and busy otherwise, and no interrupt is taken (no byte
\* arrives, masked interrupts) while the program counts and reads.
InitCount ==
    /\ _tx_buffer_head \in TxIndex
    /\ _tx_buffer_tail \in TxIndex
    /\ _tx_buffer = [i \in TxIndex |-> 0]
    /\ _rx_buffer_head \in RxIndex
    /\ _rx_buffer_tail \in RxIndex
    /\ _rx_buffer = [i \in RxIndex |-> 0]
    /\ _written = TRUE
    /\ ucsra = IF _tx_buffer_head = _tx_buffer_tail THEN {"UDRE", "TXC"} ELSE {}
    /\ ucsrb = {"RXEN", "TXEN", "RXCIE"}
                 \cup (IF _tx_buffer_head = _tx_buffer_tail THEN {} ELSE {"UDRIE"})
    /\ ucsrc = 6
    /\ ubrr = <<0, 16>>
    /\ udr = 0
    /\ sreg_i = FALSE
    /\ shift_busy = (_tx_buffer_head # _tx_buffer_tail)
    /\ pc = "idle"
    /\ c = 0 /\ head = 0 /\ tail = 0 /\ newHead = 0
    /\ reg = {}
    /\ ret = 0
    /\ pending = [i \in 1 .. ((_tx_buffer_head - _tx_buffer_tail) % SERIAL_TX_BUFFER_SIZE) |-> 0]
    /\ order_ok = TRUE
    /\ found_full = FALSE

NextCount ==
    \/ availableForWrite
    \/ available \/ available_ret
    \/ read \/ read_cmp \/ read_load
    \/ Return

SpecCount == InitCount /\ [][NextCount]_vars

----------------------------------------------------------------------------
\* Properties

\* Number of bytes between tail t and head h of the TX ring.
TxCount(h, t) == (h - t + SERIAL_TX_BUFFER_SIZE) % SERIAL_TX_BUFFER_SIZE

\* The bytes of the TX ring from tail t up to head h, oldest first.
RECURSIVE TxRing(_, _)
TxRing(t, h) ==
    IF t = h THEN <<>>
    ELSE <<_tx_buffer[t]>> \o TxRing((t + 1) % SERIAL_TX_BUFFER_SIZE, h)

\* The byte of a write() that has been accepted and is neither published in
\* the ring nor stored to UDR yet.
InProgress == IF pc \in {"w_check", "w_fast", "w_poll", "w_spin", "w_commit"} THEN <<c>> ELSE <<>>

\* C1: every byte passed to write() is stored to UDR exactly once and in the
\* order written, also when writes find the TX ring full: each store to UDR,
\* by the fast path or by the handler, is the oldest accepted byte not yet
\* stored, and no accepted byte is dropped.
C1_ExactlyOnceInOrder == order_ok

\* C2: as long as no write() has found the TX ring full, the bytes stored to
\* UDR are the bytes written, in order: every store was the oldest unsent byte,
\* and the unsent bytes are exactly the ring contents from tail to head followed
\* by the byte of the write() in progress, so a fast-path write (taken on an
\* empty ring) overtakes nothing.
C2_FifoWithoutFull ==
    ~found_full =>
        /\ order_ok
        /\ pending = TxRing(_tx_buffer_tail, _tx_buffer_head) \o InProgress

\* C3: a write() enters the wait loop only when the ring held
\* SERIAL_TX_BUFFER_SIZE - 1 bytes at its index reads (so that many buffered
\* writes with no drain complete without waiting), and a write() that found
\* the next head equal to the TX tail leaves the wait loop, to publish its
\* head, only once the TX tail is no longer that index.
C3_CapacityBoundary ==
    [][ /\ (pc = "w_check" /\ pc' \in {"w_poll", "w_spin"})
            => TxCount(head, tail) = SERIAL_TX_BUFFER_SIZE - 1
        /\ (pc \in {"w_poll", "w_spin"} /\ pc' = "w_commit")
            => newHead # _tx_buffer_tail ]_vars

\* C4: every call of write() returns, and returns 1, whether interrupts are
\* enabled or disabled, given that the transmitter keeps emptying UDR and the
\* handler is taken while UDRIE is set.
C4_WriteReturns == (pc = "w_check") ~> (pc = "w_ret" /\ ret = 1)

C6_FlushMaskedProgress ==
    (pc = "f_loop" /\ ~sreg_i /\ "UDRIE" \in ucsrb)
        ~> (pc = "f_ret" /\ _tx_buffer_head = _tx_buffer_tail /\ "UDRIE" \notin ucsrb)

\* Witness of C6: flush() loops with interrupts disabled, UDRIE set, UDRE set
\* and more than one byte in the ring: it is about to run the handler itself.
C6_Witness ==
    /\ pc = "f_loop"
    /\ ~sreg_i
    /\ "UDRIE" \in ucsrb
    /\ "UDRE" \in ucsra
    /\ TxCount(_tx_buffer_head, _tx_buffer_tail) > 1

\* C7: a flush() called with _written false returns in its first step and
\* changes nothing (no handler run, no register, index or buffer change);
\* only begin() takes _written from true to false, and a call of write()
\* leaves it true.
C7_FlushVacuous ==
    [][ /\ (pc = "idle" /\ pc' \in {"f_loop", "f_ret"} /\ ~_written)
            => (pc' = "f_ret" /\ UNCHANGED <<tx, rx, _written, regs, sreg_i, shift_busy, udr, hist>>)
        /\ (_written /\ ~_written') => (pc = "idle" /\ pc' = "b_rxen")
        /\ (pc = "idle" /\ pc' = "w_check") => _written' ]_vars

\* Witness of C7: flush() has returned at once on a port reopened by begin()
\* while TXC is clear and bytes are still in the ring.
C7_Witness ==
    /\ pc = "f_ret"
    /\ ~_written
    /\ "TXC" \notin ucsra
    /\ _tx_buffer_head # _tx_buffer_tail

\* C8: peek() and read() return -1 exactly when the sampled head equals the
\* tail, and otherwise the byte at the tail, a value in 0..255; a read() that
\* returns -1 leaves the tail where it was and changes no RX index in its
\* step, and a read() that returns a byte has advanced the tail by one.
C8_EmptySignalling ==
    /\ [](pc = "p_ret" =>
            IF head = tail THEN ret = -1
            ELSE ret = _rx_buffer[tail] /\ ret \in 0 .. 255)
    /\ [](pc = "r_ret" =>
            IF head = tail THEN ret = -1 /\ _rx_buffer_tail = tail
            ELSE ret = _rx_buffer[tail] /\ ret \in 0 .. 255
                 /\ _rx_buffer_tail = RxNextTail(tail))
    /\ [][(pc = "r_cmp" /\ pc' = "r_ret")
            => UNCHANGED <<_rx_buffer_head, _rx_buffer_tail>>]_vars

\* Witness of C8: read() has returned the byte 1 from a ring whose tail slot
\* held it, at a tail other than 0.
C8_Witness ==
    /\ pc = "r_ret"
    /\ ret = 1
    /\ tail # 0
    /\ head # tail

\* C9: after begin() returns, and after end() returns, both the RX ring and
\* the TX ring are empty (head = tail), whatever they held before the call.
C9_ResetOnOpenAndClose ==
    pc \in {"b_ret", "e_ret"} =>
        /\ _rx_buffer_head = _rx_buffer_tail
        /\ _tx_buffer_head = _tx_buffer_tail

\* C10: end() clears TXEN only when every byte accepted by write() has been
\* stored to UDR, in order, and the transmitter has completed (UDR empty,
\* shift register idle); when end() returns RXEN, TXEN, RXCIE and UDRIE are
\* clear and the RX ring is empty (available() is 0).
C10_EndOrdering ==
    /\ pc = "e_cbi" =>
        /\ order_ok
        /\ pending = <<>>
        /\ "UDRE" \in ucsra
        /\ ~shift_busy
    /\ pc = "e_ret" =>
        /\ ucsrb \cap {"RXEN", "TXEN", "RXCIE", "UDRIE"} = {}
        /\ _rx_buffer_head = _rx_buffer_tail

\* C11: availableForWrite() returns C - 1 - ((head - tail) mod C) for every
\* pair of in-range indices and every capacity C, a power of two or not; the
\* value is in 0..C-1, it is C-1 exactly when head equals tail (ring empty)
\* and 0 exactly when the next head is the tail (the next buffered write()
\* finds the ring full); a call on the running driver returns that value for
\* the indices it read.
C11_AvailableForWrite ==
    /\ \A cap \in 2 .. MaxCapacity : \A h \in 0 .. cap - 1 : \A t \in 0 .. cap - 1 :
          LET r == AvailableForWriteResult(cap, h, t)
          IN  /\ r = cap - 1 - ((h - t) % cap)
              /\ r \in 0 .. cap - 1
              /\ (r = cap - 1) <=> (h = t)
              /\ (r = 0) <=> ((IF h + 1 >= cap THEN 0 ELSE h + 1) = t)
    /\ pc = "aw_ret" =>
          /\ ret = SERIAL_TX_BUFFER_SIZE - 1 - TxCount(head, tail)
          /\ (ret = SERIAL_TX_BUFFER_SIZE - 1) <=> (head = tail)
          /\ (ret = 0) <=> (TxNextHead(head) = tail)

\* Witness of C11: availableForWrite() has returned 0 on a full ring whose
\* head has wrapped behind the tail.
C11_Witness ==
    /\ pc = "aw_ret"
    /\ ret = 0
    /\ head < tail
    /\ _tx_buffer_head = head /\ _tx_buffer_tail = tail

\* The number of consecutive calls of read() that return a byte, from the
\* sampled head h and the tail t, when no byte arrives.
RECURSIVE ReadsUntilEmpty(_, _)
ReadsUntilEmpty(h, t) ==
    IF h = t THEN 0 ELSE 1 + ReadsUntilEmpty(h, RxNextTail(t))

\* C12: available() returns (head - tail) mod C for every pair of in-range
\* indices and every capacity C, a power of two or not, a value in 0..C-1;
\* on the running driver it returns the number of consecutive read() calls
\* that return a byte before one returns -1: a read() returns a byte exactly
\* when that number is not 0 and lowers it by one.
C12_Available ==
    /\ [](/\ \A cap \in 2 .. MaxCapacity : \A h \in 0 .. cap - 1 : \A t \in 0 .. cap - 1 :
               LET r == AvailableResult(cap, h, t)
               IN  r = (h - t) % cap /\ r \in 0 .. cap - 1
          /\ pc = "a_ret" =>
               /\ ret = (head - tail) % SERIAL_RX_BUFFER_SIZE
               /\ ret = ReadsUntilEmpty(head, tail))
    /\ [][pc = "r_cmp" /\ pc' # pc =>
            /\ (pc' = "r_load") <=> (ReadsUntilEmpty(head, _rx_buffer_tail) > 0)
            /\ (pc' = "r_ret") <=> (ReadsUntilEmpty(head, _rx_buffer_tail) = 0)
            /\ pc' = "r_load" =>
                  ReadsUntilEmpty(head, _rx_buffer_tail') = ReadsUntilEmpty(head, _rx_buffer_tail) - 1]_vars

\* Witness of C12: available() has returned SERIAL_RX_BUFFER_SIZE - 1 on a
\* full ring whose head has wrapped behind the tail.
C12_Witness ==
    /\ pc = "a_ret"
    /\ ret = SERIAL_RX_BUFFER_SIZE - 1
    /\ head < tail

\* C13: write() never stores its byte into a slot of _tx_buffer that holds an
\* unsent byte (when it stores into the ring, the bytes accepted before it and
\* not yet stored to UDR are fewer than the slots), and the head that write()
\* publishes is never equal to the TX tail.
C13_NoOverwrite ==
    [][ /\ (pc = "w_check" /\ pc' \in {"w_poll", "w_spin", "w_commit"} /\ order_ok)
            => Len(pending) - 1 < SERIAL_TX_BUFFER_SIZE
        /\ (pc = "w_commit" /\ pc' = "w_ret")
            => _tx_buffer_head' # _tx_buffer_tail' ]_vars

\* C14: the TX path does not depend on the RX indices and the RX results do
\* not depend on the TX indices.  Every pass of a wait loop of write() is also
\* the pass the code makes when _rx_buffer_tail holds any other in-range value
\* (the only RX index write() and flush() name), and the values returned by
\* available(), peek() and read() are functions of the RX ring alone.
C14_TxRxIndependent ==
    /\ [][ \A r \in RxIndex :
              /\ write_poll => WritePoll(r)
              /\ write_spin => WriteSpin(r) ]_vars
    /\ [](/\ pc = "a_ret" => ret = AvailableResult(SERIAL_RX_BUFFER_SIZE, head, tail)
          /\ pc = "p_ret" => ret = (IF head = tail THEN -1 ELSE _rx_buffer[tail])
          /\ pc = "r_ret" => ret = (IF head = tail THEN -1 ELSE _rx_buffer[tail]))

\* C15: write() publishes the new head together with UDRIE, in every state a
\* non-empty TX ring has UDRIE set, and a byte at the tail of the ring is
\* stored to UDR (the tail moves on) while interrupts stay enabled, with no
\* further call of write().
C15_AtomicCommit ==
    /\ [][_tx_buffer_head' # _tx_buffer_head => "UDRIE" \in ucsrb']_vars
    /\ [](_tx_buffer_head # _tx_buffer_tail => "UDRIE" \in ucsrb)
    /\ \A t \in TxIndex :
          (_tx_buffer_head # _tx_buffer_tail /\ _tx_buffer_tail = t /\ sreg_i)
              ~> (_tx_buffer_tail # t \/ ~sreg_i)

\* C16: UDRIE set implies a non-empty TX ring, and every execution of the
\* handler (every step that moves the TX tail), as an interrupt or called by
\* flush() or by write(), starts with _tx_buffer_head # _tx_buffer_tail and
\* with an accepted byte still unsent.
C16_HandlerOnNonEmpty ==
    /\ []("UDRIE" \in ucsrb => _tx_buffer_head # _tx_buffer_tail)
    /\ [][_tx_buffer_tail' # _tx_buffer_tail =>
            /\ _tx_buffer_head # _tx_buffer_tail
            /\ order_ok => pending # <<>>]_vars

\* C17: one execution of the handler (a step that moves the TX tail) stores
\* to UDR the byte at _tx_buffer[tail], advances the tail by one with wrap at
\* the capacity, leaves TXC clear, leaves the head and the buffer contents
\* unchanged, and clears UDRIE if and only if the advanced tail is the head.
C17_HandlerStep ==
    [][_tx_buffer_tail' # _tx_buffer_tail =>
        /\ udr' = _tx_buffer[_tx_buffer_tail]
        /\ _tx_buffer_tail' = (_tx_buffer_tail + 1) % SERIAL_TX_BUFFER_SIZE
        /\ "TXC" \notin ucsra'
        /\ UNCHANGED <<_tx_buffer_head, _tx_buffer>>
        /\ ucsrb' = IF _tx_buffer_tail' = _tx_buffer_head
                    THEN ucsrb \ {"UDRIE"} ELSE ucsrb]_vars

\* Witness of C17: the handler has stored the byte 1 of the last slot to UDR
\* and wrapped the tail to 0, with TXC clear and UDRIE kept for the byte
\* still in the ring.
C17_Witness ==
    /\ _tx_buffer_tail = 0
    /\ _tx_buffer_head = 1
    /\ _tx_buffer[SERIAL_TX_BUFFER_SIZE - 1] = 1
    /\ _tx_buffer[0] = 0
    /\ udr = 1
    /\ ucsra \cap {"UDRE", "TXC"} = {}
    /\ "UDRIE" \in ucsrb
    /\ pending = <<0>>
    /\ ~found_full

\* What the two steps of the fast path and the store of the buffered path do.
\* The store to UDR is the byte c and touches neither the ring nor UDRIE nor
\* TXC; the only step taken after it is the clear of TXC (no handler, no
\* transmitter step in between), which returns 1; the buffered path puts the
\* same byte c in the slot at head, which the handler sends from there.
FastPathEffect ==
    /\ (pc = "w_fast" /\ pc' # pc) =>
          /\ pc' = "w_fast_txc"
          /\ udr' = c
          /\ ucsra' = ucsra \ {"UDRE"}
          /\ UNCHANGED <<tx, ucsrb>>
    /\ (pc = "w_fast_txc") =>
          /\ pc' = "w_ret"
          /\ ret' = 1
          /\ "TXC" \notin ucsra'
          /\ UNCHANGED <<tx, ucsrb, udr>>
    /\ (pc = "w_check" /\ pc' \in {"w_poll", "w_spin", "w_commit"}) =>
          _tx_buffer'[head] = c

\* C18 as stated: write(c) takes the fast path if and only if the TX ring is
\* empty (_tx_buffer_head = _tx_buffer_tail) and UDRE is set at the time of
\* the check; the fast path stores c to UDR first and clears TXC second with
\* nothing in between, changes no index, no slot and not UDRIE, and sends the
\* byte the buffered path would send.
C18_FastPathOnEmptyRing ==
    [][ /\ (pc = "w_check" /\ pc' # pc) =>
              ((pc' = "w_fast") <=> (_tx_buffer_head = _tx_buffer_tail /\ "UDRE" \in ucsra))
        /\ FastPathEffect ]_vars

\* C18 amended: write(c) takes the fast path if and only if the head and the
\* tail it read on entry are equal and UDRE is set at the time of the check;
\* the rest as stated.
C18_FastPath ==
    [][ /\ (pc = "w_check" /\ pc' # pc) =>
              ((pc' = "w_fast") <=> (head = tail /\ "UDRE" \in ucsra))
        /\ FastPathEffect ]_vars

\* Witness of C18: a write(1) has returned through the fast path on a ring
\* that was used before (head = tail # 0): UDR holds 1, TXC is clear.
C18_Witness ==
    /\ pc = "w_ret"
    /\ c = 1
    /\ udr = 1
    /\ ret = 1
    /\ head = tail
    /\ head # 0
    /\ _tx_buffer_head = head /\ _tx_buffer_tail = tail
    /\ _tx_buffer[head] = 0
    /\ "TXC" \notin ucsra

\* The owners of the TX indices and of the RX tail: the step of read() that
\* stores the new tail, the commit of write(), and an execution of the
\* transmit handler, as an interrupt or called by flush() (also inside
\* end()) or by write().
OwnedByWriterReaderHandler ==
    /\ _rx_buffer_tail' # _rx_buffer_tail => read_cmp
    /\ _tx_buffer_head' # _tx_buffer_head => write_commit
    /\ _tx_buffer_tail' # _tx_buffer_tail =>
          (TxIrq \/ flush_loop \/ end_flush \/ write_poll)

\* C19 as stated: _rx_buffer_head is changed only by the receive interrupt,
\* _rx_buffer_tail only by read(), _tx_buffer_head only by write() and
\* _tx_buffer_tail only by the transmit handler.
C19_IndexOwnership ==
    [][ /\ _rx_buffer_head' # _rx_buffer_head => \E b \in Bytes : RxIrq(b)
        /\ OwnedByWriterReaderHandler ]_vars

\* C19 amended: _rx_buffer_head is changed only by the receive interrupt and
\* by end(), which sets it to _rx_buffer_tail after it has cleared RXCIE; the
\* other three indices as stated.
C19_IndexOwners ==
    [][ /\ _rx_buffer_head' # _rx_buffer_head =>
              \/ \E b \in Bytes : RxIrq(b)
              \/ end_cbi /\ _rx_buffer_head' = _rx_buffer_tail /\ "RXCIE" \notin ucsrb'
        /\ OwnedByWriterReaderHandler ]_vars

\* Witness of C19: every owner has moved its index (no index is 0) and end()
\* is about to discard the bytes of a non-empty RX ring.
C19_Witness ==
    /\ pc = "e_cbi"
    /\ _rx_buffer_head # _rx_buffer_tail
    /\ _rx_buffer_head # 0 /\ _rx_buffer_tail # 0
    /\ _tx_buffer_head # 0 /\ _tx_buffer_tail # 0

\* C20: the two steps of peek() change nothing but its locals and its
\* result; the byte at the tail of a non-empty RX ring is changed by no step,
\* nor is the byte at the tail read() has sampled while read() runs (a byte
\* received meanwhile goes elsewhere), so that a read() on a non-empty ring
\* returns what peek() returned just before; the step of read() that takes a
\* byte advances the tail by one with wrap, leaves the head unchanged and
\* lowers the value of available() by one.
C20_PeekReadRelation ==
    /\ [][ /\ ((pc = "idle" /\ pc' = "p_cmp") \/ (pc = "p_cmp" /\ pc' = "p_ret")) =>
                UNCHANGED <<tx, rx, _written, regs, udr, sreg_i, shift_busy, hist>>
           /\ _rx_buffer_head # _rx_buffer_tail =>
                _rx_buffer'[_rx_buffer_tail] = _rx_buffer[_rx_buffer_tail]
           /\ (pc = "r_load" \/ (pc = "r_cmp" /\ head # _rx_buffer_tail)) =>
                _rx_buffer'[IF pc = "r_load" THEN tail ELSE _rx_buffer_tail]
                    = _rx_buffer[IF pc = "r_load" THEN tail ELSE _rx_buffer_tail]
           /\ (pc = "r_cmp" /\ pc' = "r_load") =>
                /\ tail' = _rx_buffer_tail
                /\ _rx_buffer_tail' = (_rx_buffer_tail + 1) % SERIAL_RX_BUFFER_SIZE
                /\ UNCHANGED <<_rx_buffer_head, _rx_buffer>>
                /\ AvailableResult(SERIAL_RX_BUFFER_SIZE, _rx_buffer_head', _rx_buffer_tail')
                      = AvailableResult(SERIAL_RX_BUFFER_SIZE, _rx_buffer_head, _rx_buffer_tail) - 1 ]_vars
    /\ [](pc \in {"p_ret", "r_ret"} /\ head # tail => ret = _rx_buffer[tail])
    /\ [](pc = "p_ret" => tail = _rx_buffer_tail)

\* Witness of C20: read() has returned the byte 1 while a byte 0 received
\* after its head sample sits in the ring (the head has moved on from the
\* sampled one and the ring is not empty after the read).
C20_Witness ==
    /\ pc = "r_ret"
    /\ ret = 1
    /\ head # tail
    /\ _rx_buffer_head # head
    /\ _rx_buffer[head] = 0
    /\ _rx_buffer_tail = head

====
